---- MODULE Spec2Model ----
(***************************************************************************)
(* Yahtzee scoring rules (src/src/Rules.js) and the score-table row that   *)
(* claims one rule (src/src/RuleRow.js).                                   *)
(*                                                                         *)
(* The rules are pure functions of a hand of dice; they are modelled as    *)
(* operators computed the way the JavaScript computes them, and applied by *)
(* one action per rule class to a hand chosen in the initial state.        *)
(* The row is a React component: handleClick enqueues a state update that  *)
(* React applies later, and reads this.state in the same call.             *)
(***************************************************************************)
EXTENDS Integers, Sequences, FiniteSets, TLC

VARIABLES
    hand,          \* the dice passed to evalRoll
    rule,          \* name of the exported rule last evaluated, "none" before
    result,        \* completion of that evalRoll call: a return value or a throw
    state,         \* RuleRow this.state
    pendingState,  \* updates queued by this.setState and not yet applied
    props,         \* RuleRow this.props (name, description, score)
    doScoreCalls,  \* number of times this.props.doScore has been invoked
    dom            \* what the last render() produced

vars == <<hand, rule, result, state, pendingState, props, doScoreCalls, dom>>
ruleVars == <<hand, rule, result>>
rowVars == <<state, pendingState, props, doScoreCalls, dom>>

---------------------------------------------------------------------------
(* Sizes *)

\* a Yahtzee hand: five dice, six faces
NumDice == 5
NumFaces == 6

\* malformed hands explored: lengths 0..MaxHandLen, die values 1..MaxDie
MaxHandLen == 5
MaxDie == 7

\* setState updates that may be queued before React applies them
MaxPending == 3

---------------------------------------------------------------------------
(* Completion of a JavaScript call *)

Return(v) == [threw |-> FALSE, value |-> v]
Throw(e) == [threw |-> TRUE, error |-> e]

---------------------------------------------------------------------------
(* class Rule: helpers *)

\* dice.reduce((prev, curr) => prev + curr), from index i with accumulator prev
RECURSIVE reduceAdd(_, _, _)
reduceAdd(dice, i, prev) ==
    IF i > Len(dice) THEN prev ELSE reduceAdd(dice, i + 1, prev + dice[i])

\* first element counted twice: reduce given dice[0] as an initial value too
sumSeeded(dice) ==
    IF Len(dice) = 0 THEN Throw("TypeError")
    ELSE Return(reduceAdd(dice, 1, dice[1]))

\* reduce without an initial value: TypeError on an empty array,
\* otherwise the first element seeds the accumulator
sum(dice) ==
    IF Len(dice) = 0 THEN Throw("TypeError")
    ELSE Return(reduceAdd(dice, 2, dice[1]))

\* a Map as its entries <<key, value>> in insertion order
MapHas(m, k) == \E i \in 1..Len(m) : m[i][1] = k
\* freqs.get(d) || 0
MapGetOr0(m, k) ==
    IF MapHas(m, k) THEN (CHOOSE e \in {m[i] : i \in 1..Len(m)} : e[1] = k)[2]
    ELSE 0
\* set keeps the position of an existing key and appends a new one
MapSet(m, k, v) ==
    IF MapHas(m, k)
    THEN [i \in 1..Len(m) |-> IF m[i][1] = k THEN <<k, v>> ELSE m[i]]
    ELSE Append(m, <<k, v>>)
\* Array.from(m.values())
MapValues(m) == [i \in 1..Len(m) |-> m[i][2]]

\* for (let d of dice) freqs.set(d, (freqs.get(d) || 0) + 1)
RECURSIVE freqLoop(_, _, _)
freqLoop(dice, i, freqs) ==
    IF i > Len(dice) THEN freqs
    ELSE freqLoop(dice, i + 1, MapSet(freqs, dice[i], MapGetOr0(freqs, dice[i]) + 1))

freq(dice) == MapValues(freqLoop(dice, 1, <<>>))

\* filter with >= in place of ===
countAtLeast(dice, val) == Cardinality({i \in 1..Len(dice) : dice[i] >= val})

\* dice.filter(d => d === val).length
count(dice, val) == Cardinality({i \in 1..Len(dice) : dice[i] = val})

\* new Set(dice)
SetOf(dice) == {dice[i] : i \in 1..Len(dice)}

---------------------------------------------------------------------------
(* Rule subclasses: evalRoll.  arr.some(c => P(c)) is \E i \in 1..Len(arr) : P(arr[i]) *)

TotalOneNumber_evalRoll(this, dice) == Return(this.val * count(dice, this.val))

\* strict comparison in place of >=
SumDistro_evalRollStrict(this, dice) ==
    LET f == freq(dice)
    IN IF \E i \in 1..Len(f) : f[i] > this.count THEN sum(dice) ELSE Return(0)

SumDistro_evalRoll(this, dice) ==
    LET f == freq(dice)
    IN IF \E i \in 1..Len(f) : f[i] >= this.count THEN sum(dice) ELSE Return(0)

\* "at least" in place of "exactly"
FullHouse_evalRollAtLeast(this, dice) ==
    LET f == freq(dice)
        g == freq(dice)
    IN Return(IF (\E i \in 1..Len(f) : f[i] >= 3) /\ (\E i \in 1..Len(g) : g[i] >= 2)
              THEN this.score ELSE 0)

FullHouse_evalRoll(this, dice) ==
    LET f == freq(dice)
        g == freq(dice)
    IN Return(IF (\E i \in 1..Len(f) : f[i] = 3) /\ (\E i \in 1..Len(g) : g[i] = 2)
              THEN this.score ELSE 0)

SmallStraight_evalRoll(this, dice) ==
    LET d == SetOf(dice)
        size == Cardinality(d)
    IN Return(IF \/ /\ size = 4
                    /\ \/ (1 \notin d /\ 2 \notin d)
                       \/ (1 \notin d /\ 6 \notin d)
                       \/ (5 \notin d /\ 6 \notin d)
                 \/ /\ size = 5
                    /\ (1 \notin d \/ 6 \notin d)
              THEN this.score ELSE 0)

\* the test on the end faces left out
LargeStraight_evalRollSizeOnly(this, dice) ==
    LET d == SetOf(dice)
    IN Return(IF Cardinality(d) = 5 THEN this.score ELSE 0)

LargeStraight_evalRoll(this, dice) ==
    LET d == SetOf(dice)
    IN Return(IF Cardinality(d) = 5 /\ (1 \notin d \/ 6 \notin d)
              THEN this.score ELSE 0)

\* "at least four" in place of "=== 5"
Yahtzee_evalRollFour(this, dice) ==
    LET f == freq(dice)
    IN Return(IF Len(f) > 0 /\ f[1] >= 4 THEN this.score ELSE 0)

\* freq(dice)[0] is undefined for an empty array, and undefined === 5 is false
Yahtzee_evalRoll(this, dice) ==
    LET f == freq(dice)
    IN Return(IF Len(f) > 0 /\ f[1] = 5 THEN this.score ELSE 0)

---------------------------------------------------------------------------
(* The exported rule instances *)

ones == [kind |-> "TotalOneNumber", val |-> 1, description |-> "1 point for each ones"]
twos == [kind |-> "TotalOneNumber", val |-> 2, description |-> "2 point for each twos"]
threes == [kind |-> "TotalOneNumber", val |-> 3, description |-> "3 point for each threes"]
fours == [kind |-> "TotalOneNumber", val |-> 4, description |-> "4 point for each fours"]
fives == [kind |-> "TotalOneNumber", val |-> 5, description |-> "5 point for each fives"]
sixes == [kind |-> "TotalOneNumber", val |-> 6, description |-> "6 point for each sixs"]
threeOfKind == [kind |-> "SumDistro", count |-> 3, description |-> "Sum of dice for 3 same dices"]
fourOfKind == [kind |-> "SumDistro", count |-> 4, description |-> "Sum of dice for 4 same dices"]
fullHouse == [kind |-> "FullHouse", score |-> 25, description |-> "\tIf 3 of one value and 2 of another, score 25"]
smallStraight == [kind |-> "SmallStraight", score |-> 30, description |-> "\tIf 4+ values in a row, score 30"]
largeStraight == [kind |-> "LargeStraight", score |-> 40, description |-> "If 5 values in a row, score 40"]
yahtzee == [kind |-> "Yahtzee", score |-> 50, description |-> "If all values match, score 50"]
chance == [kind |-> "SumDistro", count |-> 0, description |-> "\tScore sum of all dice"]

RuleNames ==
    {"ones", "twos", "threes", "fours", "fives", "sixes", "threeOfKind",
     "fourOfKind", "fullHouse", "smallStraight", "largeStraight", "yahtzee",
     "chance"}

exported(n) ==
    CASE n = "ones" -> ones
      [] n = "twos" -> twos
      [] n = "threes" -> threes
      [] n = "fours" -> fours
      [] n = "fives" -> fives
      [] n = "sixes" -> sixes
      [] n = "threeOfKind" -> threeOfKind
      [] n = "fourOfKind" -> fourOfKind
      [] n = "fullHouse" -> fullHouse
      [] n = "smallStraight" -> smallStraight
      [] n = "largeStraight" -> largeStraight
      [] n = "yahtzee" -> yahtzee
      [] n = "chance" -> chance

NamesOfKind(k) == {n \in RuleNames : exported(n).kind = k}

\* the evalRoll field of an instance: the arrow function of its class
evalRoll(this, dice) ==
    CASE this.kind = "TotalOneNumber" -> TotalOneNumber_evalRoll(this, dice)
      [] this.kind = "SumDistro" -> SumDistro_evalRoll(this, dice)
      [] this.kind = "FullHouse" -> FullHouse_evalRoll(this, dice)
      [] this.kind = "SmallStraight" -> SmallStraight_evalRoll(this, dice)
      [] this.kind = "LargeStraight" -> LargeStraight_evalRoll(this, dice)
      [] this.kind = "Yahtzee" -> Yahtzee_evalRoll(this, dice)

---------------------------------------------------------------------------
(* Hands *)

ValidHand(dice) == Len(dice) = NumDice /\ \A i \in 1..Len(dice) : dice[i] \in 1..NumFaces
ValidHands == [1..NumDice -> 1..NumFaces]
InvalidHands ==
    {h \in UNION {[1..n -> 1..MaxDie] : n \in 0..MaxHandLen} : ~ValidHand(h)}

\* hands a mounted row is shown for
RowHands == {<<1, 1, 1, 1, 1>>, <<2, 2, 3, 3, 3>>, <<1, 2, 3, 4, 5>>, <<6, 6, 6, 6, 5>>}

---------------------------------------------------------------------------
(* Evaluating a rule on the hand: one action per rule class *)

Evaluate(n) ==
    /\ rule' = n
    /\ result' = evalRoll(exported(n), hand)
    /\ UNCHANGED <<hand, rowVars>>

EvalTotalOneNumber == \E n \in NamesOfKind("TotalOneNumber") : Evaluate(n)
EvalSumDistro == \E n \in NamesOfKind("SumDistro") : Evaluate(n)
EvalFullHouse == \E n \in NamesOfKind("FullHouse") : Evaluate(n)
EvalSmallStraight == \E n \in NamesOfKind("SmallStraight") : Evaluate(n)
EvalLargeStraight == \E n \in NamesOfKind("LargeStraight") : Evaluate(n)
EvalYahtzee == \E n \in NamesOfKind("Yahtzee") : Evaluate(n)

---------------------------------------------------------------------------
(* class RuleRow *)

\* JSX text of a number is its decimal string
render(st, p) ==
    [className |-> IF st.clicked THEN "RuleRow RuleRow-disabled" ELSE "RuleRow RuleRow-active",
     name |-> p.name,
     score |-> IF st.clicked THEN ToString(p.score) ELSE p.description]

\* setState merges a partial state into this.state
Merge(st, upd) == [f \in DOMAIN st |-> IF f \in DOMAIN upd THEN upd[f] ELSE st[f]]

RECURSIVE MergeAll(_, _)
MergeAll(st, queue) ==
    IF queue = <<>> THEN st ELSE MergeAll(Merge(st, Head(queue)), Tail(queue))

\* the update toggles the flag instead of setting it
handleClickToggle ==
    /\ Len(pendingState) < MaxPending
    /\ pendingState' = Append(pendingState, [clicked |-> ~state.clicked])
    /\ doScoreCalls' = IF state.clicked THEN doScoreCalls ELSE doScoreCalls + 1
    /\ UNCHANGED <<state, props, dom, ruleVars>>

\* setState only queues the update; this.state.clicked is read before React
\* has applied it
handleClick ==
    /\ Len(pendingState) < MaxPending
    /\ pendingState' = Append(pendingState, [clicked |-> TRUE])
    /\ doScoreCalls' = IF state.clicked THEN doScoreCalls ELSE doScoreCalls + 1
    /\ UNCHANGED <<state, props, dom, ruleVars>>

\* React applies the queued updates and renders the component again
ApplyState ==
    /\ pendingState # <<>>
    /\ state' = MergeAll(state, pendingState)
    /\ pendingState' = <<>>
    /\ dom' = render(state', props)
    /\ UNCHANGED <<props, doScoreCalls, ruleVars>>

---------------------------------------------------------------------------
(* Specifications *)

RuleInit(H) ==
    /\ hand \in H
    /\ rule = "none"
    /\ result = Return(0)

\* constructor, then the first render
RowInit(H, N) ==
    /\ state = [clicked |-> FALSE]
    /\ pendingState = <<>>
    /\ doScoreCalls = 0
    /\ props \in {[name |-> n, description |-> exported(n).description,
                   score |-> evalRoll(exported(n), h).value] : n \in N, h \in H}
    /\ dom = render(state, props)

\* the rules on every well-formed hand
Init == RuleInit(ValidHands) /\ RowInit({<<1, 1, 1, 1, 1>>}, {"chance"})
Next ==
    \/ EvalTotalOneNumber
    \/ EvalSumDistro
    \/ EvalFullHouse
    \/ EvalSmallStraight
    \/ EvalLargeStraight
    \/ EvalYahtzee
Spec == Init /\ [][Next]_vars

\* the rules on malformed hands
InitInvalid == RuleInit(InvalidHands) /\ RowInit({<<1, 1, 1, 1, 1>>}, {"chance"})
SpecInvalid == InitInvalid /\ [][Next]_vars

\* one mounted row
InitRow == RuleInit({<<1, 1, 1, 1, 1>>}) /\ RowInit(RowHands, RuleNames)
NextRow == handleClick \/ ApplyState
SpecRow == InitRow /\ [][NextRow]_vars

---------------------------------------------------------------------------
(* Reference notions the properties are stated with *)

Evaluated(n) == rule = n
Faces == 1..NumFaces
Occurrences(v) == Len(SelectSeq(hand, LAMBDA d : d = v))
RECURSIVE Total(_)
Total(dice) == IF dice = <<>> THEN 0 ELSE Head(dice) + Total(Tail(dice))
HasRun(d, k) == \E lo \in Faces : \A j \in 0..(k - 1) : (lo + j) \in d
AllSame(dice) == \A i, j \in 1..Len(dice) : dice[i] = dice[j]
FlatRules == {"fullHouse", "smallStraight", "largeStraight", "yahtzee"}
NonNegativeInteger(r) == ~r.threw /\ r.value \in Nat

---------------------------------------------------------------------------
(* Properties *)

\* C1: on every hand of 5 dice in 1..6, smallStraight returns 30 exactly when
\* the distinct faces contain a run of at least 4 consecutive values, and 0
\* otherwise (so [1,2,3,4,6] would score 30).
C1_SmallStraightIffRunOfFour ==
    Evaluated("smallStraight") =>
        result = Return(IF HasRun(SetOf(hand), 4) THEN 30 ELSE 0)

\* C2: props.doScore is invoked exactly once, on the first click, and never
\* again, however the clicks interleave with React applying the queued update.
C2_DoScoreAtMostOnce ==
    /\ doScoreCalls <= 1
    /\ (state.clicked \/ pendingState # <<>>) => doScoreCalls = 1

\* C3: evalRoll on a malformed hand (empty, not 5 long, or with a value
\* outside 1..6) raises an error instead of returning a score.
C3_InvalidHandRaises ==
    (rule # "none" /\ ~ValidHand(hand)) => result.threw

\* C4 as stated: every score is a non-negative integer, a flat rule returns 0
\* or its configured score, sixes never exceeds 30 and fourOfKind never
\* exceeds 24.
C4_ScoreBoundsFourOfKind24 ==
    rule # "none" =>
        /\ NonNegativeInteger(result)
        /\ rule \in FlatRules => result.value \in {0, exported(rule).score}
        /\ Evaluated("sixes") => result.value <= 30
        /\ Evaluated("fourOfKind") => result.value <= 24

\* C4 amended: every score is a non-negative integer, a flat rule returns 0
\* or its configured score (25, 30, 40, 50), and sixes and fourOfKind never
\* exceed 30.
C4_ScoreBounds ==
    rule # "none" =>
        /\ NonNegativeInteger(result)
        /\ rule \in FlatRules => result.value \in {0, exported(rule).score}
        /\ Evaluated("fullHouse") => result.value \in {0, 25}
        /\ Evaluated("smallStraight") => result.value \in {0, 30}
        /\ Evaluated("largeStraight") => result.value \in {0, 40}
        /\ Evaluated("yahtzee") => result.value \in {0, 50}
        /\ Evaluated("sixes") => result.value <= 30
        /\ Evaluated("fourOfKind") => result.value <= 30

C4_Witness == Evaluated("fourOfKind") /\ result = Return(30)

\* C5: yahtzee returns 50 exactly when all five dice show the same face and 0
\* otherwise, and for an all-equal hand freq returns the single entry 5.
C5_YahtzeeIffAllSame ==
    Evaluated("yahtzee") =>
        /\ result = Return(IF AllSame(hand) THEN 50 ELSE 0)
        /\ AllSame(hand) => freq(hand) = <<5>>

C5_Witness == Evaluated("yahtzee") /\ hand = <<4, 4, 4, 4, 4>> /\ result = Return(50)

\* C6: fullHouse returns 25 exactly when one face appears exactly 3 times and
\* a different face exactly 2 times, and 0 otherwise (four and five of a kind
\* included).
C6_FullHouseIffThreeAndTwo ==
    Evaluated("fullHouse") =>
        result = Return(IF \E a, b \in Faces :
                              a # b /\ Occurrences(a) = 3 /\ Occurrences(b) = 2
                        THEN 25 ELSE 0)

C6_Witness == Evaluated("fullHouse") /\ hand = <<2, 2, 3, 3, 3>> /\ result = Return(25)

\* C7: largeStraight returns 40 exactly when the dice are the faces 1..5 or
\* 2..6, and 0 otherwise; a hand that scores 40 on largeStraight scores 30 on
\* smallStraight.
C7_LargeStraightIffFiveInARow ==
    Evaluated("largeStraight") =>
        /\ result = Return(IF SetOf(hand) \in {1..5, 2..6} THEN 40 ELSE 0)
        /\ result = Return(40) => evalRoll(smallStraight, hand) = Return(30)

C7_Witness == Evaluated("largeStraight") /\ hand = <<2, 3, 4, 5, 6>> /\ result = Return(40)

\* C8: threeOfKind and fourOfKind return the sum of all five dice when some
\* face appears at least 3 (4) times and 0 otherwise; chance returns the sum
\* of all five dice for every hand.
C8_SumDistroSumsWhenRepeated ==
    /\ Evaluated("threeOfKind") =>
           result = Return(IF \E v \in Faces : Occurrences(v) >= 3 THEN Total(hand) ELSE 0)
    /\ Evaluated("fourOfKind") =>
           result = Return(IF \E v \in Faces : Occurrences(v) >= 4 THEN Total(hand) ELSE 0)
    /\ Evaluated("chance") => result = Return(Total(hand))

C8_Witness == Evaluated("threeOfKind") /\ hand = <<3, 3, 3, 4, 5>> /\ result = Return(18)

\* C9: the rule for face v (ones .. sixes) returns v times the number of dice
\* equal to v; dice showing other faces contribute nothing.
C9_TotalOneNumberCountsFace ==
    \A n \in NamesOfKind("TotalOneNumber") :
        Evaluated(n) =>
            /\ result = Return(exported(n).val * Occurrences(exported(n).val))
            /\ result = Return(Total(SelectSeq(hand, LAMBDA d : d = exported(n).val)))

C9_Witness == Evaluated("twos") /\ hand = <<2, 2, 2, 5, 6>> /\ result = Return(6)

\* C10: a row starts unclaimed; once clicked is true it never returns to
\* false; and the row always shows the description with the active style
\* while unclaimed and the score with the disabled style while claimed.
C10_RowLifecycle ==
    /\ state.clicked = FALSE
    /\ [][state.clicked => state'.clicked]_vars
    /\ [](IF state.clicked
          THEN dom.className = "RuleRow RuleRow-disabled" /\ dom.score = ToString(props.score)
          ELSE dom.className = "RuleRow RuleRow-active" /\ dom.score = props.description)

C10_Witness ==
    /\ state.clicked
    /\ pendingState # <<>>
    /\ dom.className = "RuleRow RuleRow-disabled"

====
